---- MODULE Spec2Model ----
(***************************************************************************)
(* Model of the storage copy / archive engine (storage/copy.go).           *)
(* Strings are sequences of one-character strings, so that the string      *)
(* manipulation of the engine (urlPath, path.Split, HasSuffix, Contains,   *)
(* Replace) is computed as the code computes it.                           *)
(***************************************************************************)
EXTENDS Integers, Sequences, FiniteSets, TLC

\* ------------------------------------------------------------------ bounds
MaxDepth == 4
MaxRuns == 2

\* --------------------------------------------------------- string helpers
\* strings.Index: 0-based position of the first occurrence, -1 when absent
Index(s, sub) ==
  LET C == {i \in 0..(Len(s) - Len(sub)) : SubSeq(s, i + 1, i + Len(sub)) = sub}
  IN IF C = {} THEN -1 ELSE CHOOSE i \in C : \A j \in C : i <= j

\* strings.LastIndex
LastIndex(s, sub) ==
  LET C == {i \in 0..(Len(s) - Len(sub)) : SubSeq(s, i + 1, i + Len(sub)) = sub}
  IN IF C = {} THEN -1 ELSE CHOOSE i \in C : \A j \in C : i >= j

\* s[from:] of Go
SliceFrom(s, from) == SubSeq(s, from + 1, Len(s))

\* s[:to] of Go
SliceTo(s, to) == SubSeq(s, 1, to)

HasPrefix(s, p) == Len(s) >= Len(p) /\ SubSeq(s, 1, Len(p)) = p

HasSuffix(s, p) == Len(s) >= Len(p) /\ SubSeq(s, Len(s) - Len(p) + 1, Len(s)) = p

Contains(s, sub) == Index(s, sub) # -1

\* strings.Replace(s, old, "", 1)
ReplaceFirst(s, old) ==
  LET i == Index(s, old)
  IN IF i = -1 THEN s ELSE SliceTo(s, i) \o SliceFrom(s, i + Len(old))

\* path.Split: directory (with the final slash) and file name
pathSplit(p) ==
  LET i == LastIndex(p, <<"/">>)
  IN <<SliceTo(p, i + 1), SliceFrom(p, i + 1)>>

\* toolbox.URLSplit: parent and resource name
URLSplit(URL) == pathSplit(URL)

\* toolbox.URLPathJoin: concatenation that avoids a duplicate separator
URLPathJoin(baseURL, p) ==
  IF HasSuffix(baseURL, <<"/">>)
  THEN (IF HasPrefix(p, <<"/">>) THEN baseURL \o Tail(p) ELSE baseURL \o p)
  ELSE (IF HasPrefix(p, <<"/">>) THEN baseURL \o p ELSE baseURL \o <<"/">> \o p)

\* ------------------------------------------------------------------ urlPath
urlPath(URL) ==
  LET schemaPosition == Index(URL, <<":", "/", "/">>)
      r1 == IF schemaPosition # -1 THEN SliceFrom(URL, schemaPosition + 3) ELSE URL
      pathRoot == Index(r1, <<"/">>)
      r2 == IF pathRoot > 0 THEN SliceFrom(r1, pathRoot) ELSE r1
  IN IF HasSuffix(r2, <<"/">>) THEN SliceTo(r2, Len(r2) - 1) ELSE r2


\* ------------------------------------------------------- errors (values)
\* an error is the sequence of its message layers, outermost first; nil is <<>>
Nil == <<>>

BackendError == <<[msg |-> "backend", src |-> <<>>, dst |-> <<>>]>>

\* fmt.Errorf("<msg>, %v %v %v", a, b, err)
Errorf(msg, a, b, err) == <<[msg |-> msg, src |-> a, dst |-> b]>> \o err

\* ------------------------------------------------- the storage services
\* A service holds content objects by URL; folders are the path prefixes.
SrcRoot == <<"m", ":", "/", "/", "/", "s">>
HostRoot == <<"m", ":", "/", "/", "h", "h">>
DstRoot == <<"m", ":", "/", "/", "/", "t">>

PathA == <<"a">>
PathB == <<"b", ".", "t">>
PathC == <<"d", "/", "c">>
PathF == <<"d", "/", "e", "/", "f">>
Paths == {PathA, PathB, PathC, PathF}

ContentOf(p) == CASE p = PathA -> 1 [] p = PathB -> 2 [] p = PathC -> 3 [] OTHER -> 4

\* the store of a source service holding the tree `tree` under `base`
TreeStore(base, tree) ==
  [u \in {URLPathJoin(base, p) : p \in tree} |->
     ContentOf(CHOOSE p \in tree : URLPathJoin(base, p) = u)]

\* destination stores a call may find
DstStores ==
  { <<>>,
    [u \in {DstRoot \o <<"/", "a", "/", "z">>, DstRoot \o <<"/", "n", ".", "t", "/", "z">>} |-> 9] }

StripSlash(u) == IF HasSuffix(u, <<"/">>) THEN SliceTo(u, Len(u) - 1) ELSE u

IsFolderIn(store, url) ==
  \E u \in DOMAIN store : HasPrefix(u, StripSlash(url) \o <<"/">>)

ContentObject(store, u) == [url |-> u, folder |-> FALSE, content |-> store[u]]

FolderObject(u) == [url |-> u, folder |-> TRUE, content |-> 0]

\* Object.IsContent / Object.IsFolder: exactly one is true
IsFolder(object) == object.folder

IsContent(object) == ~object.folder

ChildObject(store, u, v) ==
  LET rest == SliceFrom(v, Len(u) + 1)
      j == Index(rest, <<"/">>)
  IN IF j = -1 THEN ContentObject(store, v)
     ELSE FolderObject(u \o <<"/">> \o SliceTo(rest, j))

\* Service.List: the immediate children of a folder (and, for a backend that
\* reports it, the folder itself), or the single object the URL addresses
ListObjects(store, url, self) ==
  LET u == StripSlash(url)
  IN IF u \in DOMAIN store THEN {ContentObject(store, u)}
     ELSE {ChildObject(store, u, v) : v \in {w \in DOMAIN store : HasPrefix(w, u \o <<"/">>)}}
          \cup (IF self THEN {FolderObject(u)} ELSE {})

ListFound(store, base, url) ==
  LET u == StripSlash(url)
  IN u \in DOMAIN store \/ u = base \/ IsFolderIn(store, u)

\* the position of an object in the backend's collation: by the last
\* character of its URL
Rank(object) ==
  LET c == object.url[Len(object.url)]
  IN CASE c = "a" -> 1 [] c = "t" -> 2 [] c = "c" -> 3 [] c = "d" -> 4
       [] c = "e" -> 5 [] c = "f" -> 6 [] OTHER -> 0

\* the listing of a set of objects in the order the backend returns them
Listing(S, order) ==
  CHOOSE f \in [1..Cardinality(S) -> S] :
    \A i, j \in 1..Cardinality(S) :
      i < j => IF order = "asc" THEN Rank(f[i]) < Rank(f[j]) ELSE Rank(f[i]) > Rank(f[j])

\* Service.StorageObject: the descriptor of one URL, or "none"
StorageObject(store, url) ==
  IF url \in DOMAIN store THEN "content"
  ELSE IF IsFolderIn(store, url) THEN "folder" ELSE "none"

\* Service.Upload: writes the content at url (overwriting), parents are implied
Upload(store, url, data) ==
  [u \in DOMAIN store \cup {url} |-> IF u = url THEN data ELSE store[u]]

\* a ModificationHandler of the caller (any rewrite that is not the identity)
modifyContentHandler(data) == data + 10

\* ------------------------------------------------------ the engine state
VARIABLES
  srcStore,    \* the source service: content by URL
  srcBase,     \* the root folder of the source service
  listSelf,    \* whether the source backend lists a folder among its children
  listOrder,   \* the order in which the source backend lists: "asc" or "desc"
  dstStore,    \* the destination service: content by URL
  call,        \* the arguments of the running top-level call
  pc,          \* "idle", "walk" (inside copyStorageContent), "done"
  stack,       \* the copyStorageContent activations, innermost last
  err,         \* the error being returned through the activations
  result,      \* the value the top-level call returned
  lists,       \* the List calls of this run: URL and returned objects
  downloads,   \* the Download calls of this run (objects)
  probes,      \* the StorageObject calls of this run (URLs)
  handled,     \* the copy handler invocations of this run
  zip,         \* the entries written to the zip writer
  run,         \* how many times the call has been started
  snap,        \* the destination as the first run left it
  dst0,        \* the destination as the first run found it
  failures     \* how many calls of this run returned an error

\* the state of the other components of the toolbox, each a record
VARIABLES
  iter,        \* a slice iterator and the variable of its caller
  tags,        \* a BuildTagMapping call
  path,        \* a urlPath call
  tok          \* a Tokenizer

\* a component that is not in use
Idle == [on |-> FALSE]

others == <<iter, tags, path, tok>>

copyVars == <<srcStore, srcBase, listSelf, listOrder, dstStore, call, pc, stack, err, result,
              lists, downloads, probes, handled, zip, run, snap, dst0, failures>>

vars == <<srcStore, srcBase, listSelf, listOrder, dstStore, call, pc, stack, err, result,
          lists, downloads, probes, handled, zip, run, snap, dst0, failures, others>>

NoCall == [mode |-> "none", sourceURL |-> <<>>, destinationURL |-> <<>>,
           modify |-> FALSE, accept |-> {}]

\* var destURL = "mem:///dev/nul"
destURL == <<"m", "e", "m", ":", "/", "/", "/", "d", "e", "v", "/", "n", "u", "l">>

\* a fresh activation of copyStorageContent(..., subPath, ...)
Activation(subPath) ==
  [subPath |-> subPath, listed |-> FALSE, objects |-> <<>>, i |-> 1,
   objectRelativePath |-> <<>>, open |-> 0]

Init ==
  /\ srcBase \in {SrcRoot, HostRoot}
  /\ \E tree \in SUBSET Paths : srcStore = TreeStore(srcBase, tree)
  /\ listSelf \in BOOLEAN
  /\ listOrder \in {"asc", "desc"}
  /\ dstStore \in DstStores
  /\ call = NoCall
  /\ pc = "idle"
  /\ stack = <<>>
  /\ err = Nil
  /\ result = Nil
  /\ lists = <<>>
  /\ downloads = <<>>
  /\ probes = <<>>
  /\ handled = <<>>
  /\ zip = <<>>
  /\ run = 0
  /\ snap = <<>>
  /\ dst0 = <<>>
  /\ failures = 0
  /\ iter = Idle /\ tags = Idle /\ path = Idle /\ tok = Idle

\* the source URLs a caller passes: the root folder (with or without a
\* trailing separator) or one content object of its top level
SourceURLs ==
  {srcBase, srcBase \o <<"/">>}
    \cup ({URLPathJoin(srcBase, PathA), URLPathJoin(srcBase, PathB)} \cap DOMAIN srcStore)

DestinationURLs ==
  { DstRoot, DstRoot \o <<"/">>, DstRoot \o <<"/", "n">>,
    DstRoot \o <<"/", "n", ".", "t">>, DstRoot \o <<"/", "a">> }

Start(c) ==
  /\ pc = "idle"
  /\ call' = c
  /\ pc' = "walk"
  /\ stack' = <<Activation(<<>>)>>
  /\ run' = 1
  /\ dst0' = dstStore
  /\ UNCHANGED <<others, srcStore, srcBase, listSelf, listOrder, dstStore, err, result, lists,
                 downloads, probes, handled, zip, snap, failures>>

\* Copy(sourceService, sourceURL, destinationService, destinationURL, modify, nil)
Copy ==
  \E s \in SourceURLs, d \in DestinationURLs, m \in BOOLEAN :
    Start([mode |-> "copy", sourceURL |-> s, destinationURL |-> d,
           modify |-> m, accept |-> {}])

\* Archive(service, URL, writer): a fresh memory service is the destination
Archive ==
  /\ dstStore = <<>>
  /\ \E s \in SourceURLs :
       Start([mode |-> "archive", sourceURL |-> s, destinationURL |-> destURL,
              modify |-> FALSE, accept |-> {}])

\* ArchiveWithFilter(service, URL, writer, predicate); the predicate is the
\* set of object URLs it accepts
ArchiveWithFilter ==
  /\ dstStore = <<>>
  /\ \E s \in SourceURLs, acc \in SUBSET DOMAIN srcStore :
       Start([mode |-> "filter", sourceURL |-> s, destinationURL |-> destURL,
              modify |-> FALSE, accept |-> acc])

\* ------------------------------------------------- copyStorageContent
Top == stack[Len(stack)]

Object == Top.objects[Top.i]

SetTop(f) == [stack EXCEPT ![Len(stack)] = f]

sourceURLPath == urlPath(call.sourceURL)

\* sourceListURL of an activation
sourceListURL(f) ==
  IF f.subPath # <<>> THEN URLPathJoin(call.sourceURL, f.subPath) ELSE call.sourceURL

Skipped_AnyObject(f, object) ==
  \/ sourceURLPath = urlPath(object.url)
  \/ f.subPath # <<>> /\ urlPath(object.url) = URLPathJoin(sourceURLPath, f.subPath)

\* the two `continue` guards on a folder object
Skipped(f, object) ==
  /\ IsFolder(object)
  /\ \/ sourceURLPath = urlPath(object.url)
     \/ f.subPath # <<>> /\ urlPath(object.url) = URLPathJoin(sourceURLPath, f.subPath)

\* objectRelativePath after the object was looked at; the variable is declared
\* outside the loop and keeps its value when the path is not longer
RelativePath(f, object) ==
  LET objectURLPath == urlPath(object.url)
      cut == SliceFrom(objectURLPath, Len(sourceURLPath))
  IN IF Len(objectURLPath) > Len(sourceURLPath)
     THEN (IF HasPrefix(cut, <<"/">>) THEN SliceFrom(cut, 1) ELSE cut)
     ELSE f.objectRelativePath

DestinationObjectURL(rel) ==
  IF rel # <<>> THEN URLPathJoin(call.destinationURL, rel) ELSE call.destinationURL

\* whether the top-level naming step asks the destination for the object
Probed(f, d0) == f.subPath = <<>> /\ ~HasSuffix(d0, <<"/">>)

NamedDestination_AnyObject(f, object, d0) ==
  LET sourceName == pathSplit(object.url)[2]
      destinationName == pathSplit(call.destinationURL)[2]
  IN IF f.subPath # <<>> THEN d0
     ELSE IF HasSuffix(d0, <<"/">>) THEN URLPathJoin(d0, sourceName)
     ELSE IF StorageObject(dstStore, d0) # "none" THEN URLPathJoin(d0, sourceName)
     ELSE IF destinationName # sourceName /\ ~Contains(destinationName, <<".">>)
          THEN URLPathJoin(call.destinationURL, sourceName)
     ELSE d0

NamedDestination_NoProbe(f, object, d0) ==
  LET sourceName == pathSplit(object.url)[2]
      destinationName == pathSplit(call.destinationURL)[2]
  IN IF f.subPath # <<>> THEN d0
     ELSE IF HasSuffix(d0, <<"/">>) THEN URLPathJoin(d0, sourceName)
     ELSE IF destinationName # sourceName /\ ~Contains(destinationName, <<".">>)
          THEN URLPathJoin(call.destinationURL, sourceName)
     ELSE d0

NamedDestination_Replace(f, object, d0) ==
  LET sourceName == pathSplit(object.url)[2]
      destinationName == pathSplit(call.destinationURL)[2]
  IN IF f.subPath # <<>> THEN d0
     ELSE IF HasSuffix(d0, <<"/">>) THEN URLPathJoin(d0, sourceName)
     ELSE IF StorageObject(dstStore, d0) = "folder" THEN URLPathJoin(d0, sourceName)
     ELSE IF destinationName # sourceName /\ ~Contains(destinationName, <<".">>)
          THEN pathSplit(call.destinationURL)[1] \o sourceName
     ELSE d0

NamedDestination_NoDot(f, object, d0) ==
  LET sourceName == pathSplit(object.url)[2]
      destinationName == pathSplit(call.destinationURL)[2]
  IN IF f.subPath # <<>> THEN d0
     ELSE IF HasSuffix(d0, <<"/">>) THEN URLPathJoin(d0, sourceName)
     ELSE IF StorageObject(dstStore, d0) = "folder" THEN URLPathJoin(d0, sourceName)
     ELSE IF destinationName # sourceName
          THEN URLPathJoin(call.destinationURL, sourceName)
     ELSE d0

\* the destination URL the handler receives (naming step of the first call)
NamedDestination(f, object, d0) ==
  LET sourceName == pathSplit(object.url)[2]
      destinationName == pathSplit(call.destinationURL)[2]
  IN IF f.subPath # <<>> THEN d0
     ELSE IF HasSuffix(d0, <<"/">>) THEN URLPathJoin(d0, sourceName)
     ELSE IF StorageObject(dstStore, d0) = "folder" THEN URLPathJoin(d0, sourceName)
     ELSE IF destinationName # sourceName /\ ~Contains(destinationName, <<".">>)
          THEN URLPathJoin(call.destinationURL, sourceName)
     ELSE d0

Stream_TopLevelOnly(object) ==
  IF call.modify /\ Top.subPath = <<>>
  THEN modifyContentHandler(object.content) ELSE object.content

\* the stream the handler receives
Stream(object) ==
  IF call.modify THEN modifyContentHandler(object.content) ELSE object.content

\* header.Name of getArchiveCopyHandler
ArchiveName(destinationURL, parentURL) ==
  IF destinationURL # parentURL
  THEN ReplaceFirst(destinationURL, parentURL)
  ELSE URLSplit(destinationURL)[2]

\* header.Name of getArchiveCopyHandlerWithFilter
FilterName(destinationURL, parentURL) ==
  LET relativePath == ArchiveName(destinationURL, parentURL)
  IN IF HasPrefix(relativePath, <<"/">>) THEN SliceFrom(relativePath, 1) ELSE relativePath

\* predicate(sourceObject)
predicate(object) == object.url \in call.accept

\* whether the handler gets as far as an operation that can fail
HandlerCanFail(object) == call.mode # "filter" \/ predicate(object)

ZipAfter_Unfiltered(object, d) ==
  CASE call.mode = "archive" ->
         Append(zip, [name |-> ArchiveName(d, destURL), data |-> Stream(object),
                      method |-> "Deflate"])
    [] call.mode = "filter" ->
         Append(zip, [name |-> FilterName(d, destURL), data |-> Stream(object),
                      method |-> "Store"])
    [] OTHER -> zip

\* the zip writer after the handler of the call returned nil
ZipAfter(object, d) ==
  CASE call.mode = "archive" ->
         Append(zip, [name |-> ArchiveName(d, destURL), data |-> Stream(object),
                      method |-> "Deflate"])
    [] call.mode = "filter" /\ predicate(object) ->
         Append(zip, [name |-> FilterName(d, destURL), data |-> Stream(object),
                      method |-> "Store"])
    [] OTHER -> zip

\* the destination service after the handler of the call returned nil
StoreAfter(object, d) ==
  IF call.mode = "copy" THEN Upload(dstStore, d, Stream(object)) ELSE dstStore

\* the error a failing handler returns
HandlerError(object, d) ==
  IF call.mode = "copy" THEN Errorf("unable upload", object.url, d, BackendError)
  ELSE BackendError

Walking == pc = "walk" /\ stack # <<>> /\ err = Nil

InLoop == Walking /\ Top.listed /\ Top.i <= Len(Top.objects)

\* the loop is at a content object (a content object is never skipped)
AtContent == InLoop /\ ~Skipped(Top, Object) /\ IsContent(Object)

\* List succeeds
ListOK ==
  /\ Walking /\ ~Top.listed
  /\ ListFound(srcStore, srcBase, sourceListURL(Top))
  /\ stack' = SetTop([Top EXCEPT !.listed = TRUE, !.objects =
                 Listing(ListObjects(srcStore, sourceListURL(Top), listSelf), listOrder)])
  /\ lists' = Append(lists, [url |-> sourceListURL(Top),
                              objects |-> Listing(ListObjects(srcStore, sourceListURL(Top), listSelf), listOrder)])
  /\ UNCHANGED <<others, srcStore, srcBase, listSelf, listOrder, dstStore, call, pc, err, result,
                 downloads, probes, handled, zip, run, snap, dst0, failures>>

\* List fails: return err
ListErr ==
  /\ Walking /\ ~Top.listed
  /\ err' = BackendError
  /\ lists' = Append(lists, [url |-> sourceListURL(Top), objects |-> <<>>])
  /\ failures' = failures + 1
  /\ UNCHANGED <<others, srcStore, srcBase, listSelf, listOrder, dstStore, call, pc, stack, result,
                 downloads, probes, handled, zip, run, snap, dst0>>

\* a folder that is the root or the folder being listed: continue
SkipFolder ==
  /\ InLoop /\ Skipped(Top, Object)
  /\ stack' = SetTop([Top EXCEPT !.i = @ + 1])
  /\ UNCHANGED <<others, srcStore, srcBase, listSelf, listOrder, dstStore, call, pc, err, result,
                 lists, downloads, probes, handled, zip, run, snap, dst0, failures>>

\* a content object whose Download fails
DownloadErr ==
  /\ AtContent
  /\ LET rel == RelativePath(Top, Object)
     IN /\ err' = Errorf("unable download", Object.url, DestinationObjectURL(rel), BackendError)
        /\ stack' = SetTop([Top EXCEPT !.objectRelativePath = rel])
  /\ downloads' = Append(downloads, Object)
  /\ failures' = failures + 1
  /\ UNCHANGED <<others, srcStore, srcBase, listSelf, listOrder, dstStore, call, pc, result,
                 lists, probes, handled, zip, run, snap, dst0>>

\* ioutil.ReadAll of the downloaded stream fails: return err
ReadAllErr ==
  /\ AtContent /\ call.modify
  /\ err' = BackendError
  /\ stack' = SetTop([Top EXCEPT !.objectRelativePath = RelativePath(Top, Object),
                                 !.open = @ + 1])
  /\ downloads' = Append(downloads, Object)
  /\ failures' = failures + 1
  /\ UNCHANGED <<others, srcStore, srcBase, listSelf, listOrder, dstStore, call, pc, result,
                 lists, probes, handled, zip, run, snap, dst0>>

\* the modification handler fails
ModifyErr ==
  /\ AtContent /\ call.modify
  /\ LET rel == RelativePath(Top, Object)
     IN /\ err' = Errorf("unable modify content", Object.url, DestinationObjectURL(rel), BackendError)
        /\ stack' = SetTop([Top EXCEPT !.objectRelativePath = rel, !.open = @ + 1])
  /\ downloads' = Append(downloads, Object)
  /\ failures' = failures + 1
  /\ UNCHANGED <<others, srcStore, srcBase, listSelf, listOrder, dstStore, call, pc, result,
                 lists, probes, handled, zip, run, snap, dst0>>

\* the copy handler is invoked and fails
HandlerErr ==
  /\ AtContent /\ HandlerCanFail(Object)
  /\ LET rel == RelativePath(Top, Object)
         d0 == DestinationObjectURL(rel)
         d == NamedDestination(Top, Object, d0)
     IN /\ err' = HandlerError(Object, d)
        /\ stack' = SetTop([Top EXCEPT !.objectRelativePath = rel, !.open = @ + 1])
        /\ probes' = IF Probed(Top, d0) THEN Append(probes, d0) ELSE probes
        /\ handled' = Append(handled, [object |-> Object, destination |-> d,
                                       data |-> Stream(Object)])
  /\ downloads' = Append(downloads, Object)
  /\ failures' = failures + 1
  /\ UNCHANGED <<others, srcStore, srcBase, listSelf, listOrder, dstStore, call, pc, result,
                 lists, zip, run, snap, dst0>>

\* a content object is downloaded, modified, named and handed to the handler
CopyContent ==
  /\ AtContent
  /\ LET rel == RelativePath(Top, Object)
         d0 == DestinationObjectURL(rel)
         d == NamedDestination(Top, Object, d0)
     IN /\ stack' = SetTop([Top EXCEPT !.objectRelativePath = rel, !.open = @ + 1,
                                       !.i = @ + 1])
        /\ probes' = IF Probed(Top, d0) THEN Append(probes, d0) ELSE probes
        /\ handled' = Append(handled, [object |-> Object, destination |-> d,
                                       data |-> Stream(Object)])
        /\ dstStore' = StoreAfter(Object, d)
        /\ zip' = ZipAfter(Object, d)
  /\ downloads' = Append(downloads, Object)
  /\ UNCHANGED <<others, srcStore, srcBase, listSelf, listOrder, call, pc, err, result,
                 lists, run, snap, dst0, failures>>

\* a folder: the recursive call with subPath = objectRelativePath
Recurse ==
  /\ InLoop /\ IsFolder(Object) /\ ~Skipped(Top, Object)
  /\ Len(stack) < MaxDepth
  /\ LET rel == RelativePath(Top, Object)
     IN stack' = Append(SetTop([Top EXCEPT !.objectRelativePath = rel]), Activation(rel))
  /\ UNCHANGED <<others, srcStore, srcBase, listSelf, listOrder, dstStore, call, pc, err, result,
                 lists, downloads, probes, handled, zip, run, snap, dst0, failures>>

ReturnNil_SkipsNext ==
  /\ Walking /\ Top.listed /\ Top.i > Len(Top.objects)
  /\ stack' = IF Len(stack) = 1 THEN <<>>
              ELSE LET rest == SubSeq(stack, 1, Len(stack) - 1)
                   IN [rest EXCEPT ![Len(rest)] = [@ EXCEPT !.i = @ + 2]]
  /\ UNCHANGED <<others, srcStore, srcBase, listSelf, listOrder, dstStore, call, pc, err, result,
                 lists, downloads, probes, handled, zip, run, snap, dst0, failures>>

\* the loop is over: return nil (the deferred Close calls run); the caller
\* goes on with its next object
ReturnNil ==
  /\ Walking /\ Top.listed /\ Top.i > Len(Top.objects)
  /\ stack' = IF Len(stack) = 1 THEN <<>>
              ELSE LET rest == SubSeq(stack, 1, Len(stack) - 1)
                   IN [rest EXCEPT ![Len(rest)] = [@ EXCEPT !.i = @ + 1]]
  /\ UNCHANGED <<others, srcStore, srcBase, listSelf, listOrder, dstStore, call, pc, err, result,
                 lists, downloads, probes, handled, zip, run, snap, dst0, failures>>

ReturnErr_Swallowed ==
  /\ pc = "walk" /\ stack # <<>> /\ err # Nil
  /\ stack' = IF Len(stack) = 1 THEN <<>>
              ELSE LET rest == SubSeq(stack, 1, Len(stack) - 1)
                   IN [rest EXCEPT ![Len(rest)] = [@ EXCEPT !.i = @ + 1]]
  /\ err' = IF Len(stack) = 1 THEN err ELSE Nil
  /\ UNCHANGED <<others, srcStore, srcBase, listSelf, listOrder, dstStore, call, pc, result,
                 lists, downloads, probes, handled, zip, run, snap, dst0, failures>>

ReturnErr_Wrapped ==
  /\ pc = "walk" /\ stack # <<>> /\ err # Nil
  /\ stack' = SubSeq(stack, 1, Len(stack) - 1)
  /\ err' = IF Len(stack) > 1
            THEN Errorf("failed to copy", call.sourceURL, call.destinationURL, err)
            ELSE err
  /\ UNCHANGED <<others, srcStore, srcBase, listSelf, listOrder, dstStore, call, pc, result,
                 lists, downloads, probes, handled, zip, run, snap, dst0, failures>>

\* an activation returns the error (its own or the one of its recursive call)
ReturnErr ==
  /\ pc = "walk" /\ stack # <<>> /\ err # Nil
  /\ stack' = SubSeq(stack, 1, Len(stack) - 1)
  /\ UNCHANGED <<others, srcStore, srcBase, listSelf, listOrder, dstStore, call, pc, err, result,
                 lists, downloads, probes, handled, zip, run, snap, dst0, failures>>

\* Copy returns: the walk error wrapped, or nil
CopyReturn ==
  /\ pc = "walk" /\ stack = <<>>
  /\ result' = IF err # Nil
               THEN Errorf("failed to copy", call.sourceURL, call.destinationURL, err)
               ELSE Nil
  /\ pc' = "done"
  /\ snap' = IF run = 1 THEN dstStore ELSE snap
  /\ UNCHANGED <<others, srcStore, srcBase, listSelf, listOrder, dstStore, call, stack, err,
                 lists, downloads, probes, handled, zip, run, dst0, failures>>

\* the caller runs the same Copy again on the unchanged source
CopyAgain ==
  /\ pc = "done" /\ call.mode = "copy" /\ result = Nil /\ run < MaxRuns
  /\ pc' = "walk"
  /\ stack' = <<Activation(<<>>)>>
  /\ run' = run + 1
  /\ lists' = <<>>
  /\ downloads' = <<>>
  /\ probes' = <<>>
  /\ handled' = <<>>
  /\ failures' = 0
  /\ UNCHANGED <<others, srcStore, srcBase, listSelf, listOrder, dstStore, call, err, result, zip, snap, dst0>>

Next ==
  \/ Copy \/ Archive \/ ArchiveWithFilter
  \/ ListOK \/ ListErr \/ SkipFolder
  \/ DownloadErr \/ ReadAllErr \/ ModifyErr \/ HandlerErr \/ CopyContent
  \/ Recurse \/ ReturnNil \/ ReturnErr \/ CopyReturn \/ CopyAgain

Spec == Init /\ [][Next]_vars

\* ---------------------------------------------------------------- claims
Range(q) == {q[i] : i \in DOMAIN q}

\* the objects every List call of this run returned
Listed == UNION {Range(l.objects) : l \in Range(lists)}

Returned == pc = "done" /\ result = Nil

\* how many handler invocations received the object
Invocations(object) == Cardinality({i \in DOMAIN handled : handled[i].object = object})

\* C1: when a top-level call has returned without error, every content object
\* any List call returned was passed to the copy handler exactly once, and no
\* folder object was passed to it.
C1_HandledExactlyOnce ==
  Returned =>
    /\ \A object \in Listed : IsContent(object) => Invocations(object) = 1
    /\ \A h \in Range(handled) : ~IsFolder(h.object) /\ h.object \in Listed

C1_Witness ==
  /\ Returned
  /\ \E object \in Listed : IsFolder(object)
  /\ Len(lists) >= 3
  /\ Len(handled) >= 4

\* C2: a call returns nil only if no List, Download, ReadAll, modification or
\* copy handler call failed, and once one of them has failed no further List,
\* Download, StorageObject or handler call is made before the call returns.
C2_FirstErrorAborts ==
  /\ [](pc = "done" /\ failures > 0 => result # Nil)
  /\ [][failures > 0 /\ pc = "walk" =>
          /\ lists' = lists /\ downloads' = downloads
          /\ probes' = probes /\ handled' = handled
          /\ failures' = failures]_vars

C2_Witness ==
  /\ pc = "done" /\ result # Nil /\ failures = 1
  /\ Len(lists) >= 2 /\ Len(handled) >= 2
  /\ Len(handled) < Cardinality(DOMAIN srcStore) + 1

\* the call copies the root folder of the source service
TreeCall == StripSlash(call.sourceURL) = srcBase

\* the call copies one content object
SingleCall == call.sourceURL \in DOMAIN srcStore

\* the path of a content URL of the tree relative to the root folder
RelativeTo(root, u) == SliceFrom(u, Len(root) + 1)

\* where the objects of the tree belong in the destination
Expected == {URLPathJoin(call.destinationURL, RelativeTo(srcBase, u)) : u \in DOMAIN srcStore}

\* C3: Copy(src, dst) of a folder tree with the default handler and no
\* modification handler leaves the destination with one object at join(dst, p)
\* for every content object of relative path p, with the same content, and
\* with no other new object (stated for a destination that starts empty).
C3_TreeShape ==
  Returned /\ call.mode = "copy" /\ ~call.modify /\ run = 1 /\ TreeCall
    /\ dst0 = <<>> =>
    /\ DOMAIN dstStore = DOMAIN dst0 \cup Expected
    /\ \A u \in DOMAIN srcStore :
         dstStore[URLPathJoin(call.destinationURL, RelativeTo(srcBase, u))] = srcStore[u]
    /\ \A u \in DOMAIN dst0 \ Expected : dstStore[u] = dst0[u]

\* C4: a second run of the same Copy on the unchanged source leaves the
\* destination exactly as the first run left it.
C4_Idempotent == Returned /\ run = 2 => dstStore = snap

C4_Witness ==
  /\ Returned /\ run = 2 /\ Len(handled) >= 2
  /\ \E i \in DOMAIN probes : StorageObject(snap, probes[i]) = "content"
  /\ dstStore = snap

\* the destination service as the running call found it
Found == IF run = 1 THEN dst0 ELSE snap

sourceBaseName == pathSplit(call.sourceURL)[2]

destinationBaseName == pathSplit(call.destinationURL)[2]

\* C5: copying one content object to a destination URL that ends with a
\* separator or resolves to an existing folder hands the handler
\* join(destinationURL, base name of the source).
C5_IntoFolder ==
  /\ SingleCall /\ handled # <<>>
  /\ \/ HasSuffix(call.destinationURL, <<"/">>)
     \/ StorageObject(Found, call.destinationURL) = "folder"
  => handled[1].destination = URLPathJoin(call.destinationURL, sourceBaseName)

C5_Witness ==
  /\ SingleCall /\ Len(handled) = 1 /\ run = 1
  /\ ~HasSuffix(call.destinationURL, <<"/">>)
  /\ StorageObject(dst0, call.destinationURL) = "folder"
  /\ destinationBaseName = sourceBaseName
  /\ handled[1].destination = URLPathJoin(call.destinationURL, sourceBaseName)

\* the case of C6: a dot-free destination name that is no folder and differs
\* from the source name
DotFreeCase ==
  /\ SingleCall /\ handled # <<>>
  /\ ~HasSuffix(call.destinationURL, <<"/">>)
  /\ StorageObject(Found, call.destinationURL) # "folder"
  /\ destinationBaseName # sourceBaseName
  /\ ~Contains(destinationBaseName, <<".">>)

\* C6 (as claimed): in that case the final destination is the destination URL
\* with its last segment replaced by the source base name.
C6_LastSegmentReplaced ==
  DotFreeCase => handled[1].destination = pathSplit(call.destinationURL)[1] \o sourceBaseName

\* C6 (amended): in that case the final destination is the destination URL
\* with the source base name appended as a further segment.
C6_BaseNameAppended ==
  DotFreeCase => handled[1].destination = URLPathJoin(call.destinationURL, sourceBaseName)

C6_Witness ==
  /\ DotFreeCase /\ call.mode = "copy" /\ pc = "done" /\ result = Nil
  /\ URLPathJoin(call.destinationURL, sourceBaseName) \in DOMAIN dstStore

\* C7: copying one content object to a destination URL whose last segment has
\* a dot, that does not end with a separator and is no existing folder, hands
\* the handler the destination URL unchanged.
C7_Rename ==
  /\ SingleCall /\ handled # <<>>
  /\ Contains(destinationBaseName, <<".">>)
  /\ ~HasSuffix(call.destinationURL, <<"/">>)
  /\ StorageObject(Found, call.destinationURL) # "folder"
  => handled[1].destination = call.destinationURL

C7_Witness ==
  /\ SingleCall /\ Len(handled) = 1 /\ pc = "done" /\ result = Nil
  /\ Contains(destinationBaseName, <<".">>)
  /\ StorageObject(dst0, call.destinationURL) # "folder"
  /\ destinationBaseName # sourceBaseName
  /\ call.destinationURL \in DOMAIN dstStore

\* the content objects a call walks
Walked == IF SingleCall THEN {call.sourceURL} ELSE DOMAIN srcStore

\* the path of a walked object relative to the URL of the call (the base name
\* when the URL is the object)
EntryPath(u) == IF SingleCall THEN sourceBaseName ELSE RelativeTo(srcBase, u)

\* C8: Archive writes one zip entry per content object of the tree, named by
\* the object's path relative to the URL, without scheme, sentinel prefix or
\* leading separator.
C8_ArchiveEntries ==
  Returned /\ call.mode = "archive" =>
    /\ Len(zip) = Cardinality(Walked)
    /\ {zip[i].name : i \in DOMAIN zip} = {EntryPath(u) : u \in Walked}
    /\ \A i \in DOMAIN zip : ~HasPrefix(zip[i].name, <<"/">>)

\* C9: ArchiveWithFilter writes an entry for a content object of the tree if
\* and only if the predicate accepts it; a rejected object makes no entry and
\* no error, and the walk goes on.
C9_FilteredEntries ==
  /\ [](Returned /\ call.mode = "filter" =>
          /\ {zip[i].data : i \in DOMAIN zip} = {srcStore[u] : u \in Walked \cap call.accept}
          /\ Len(zip) = Cardinality(Walked \cap call.accept))
  /\ [][call.mode = "filter" /\ Len(handled') > Len(handled)
          /\ ~predicate(handled'[Len(handled')].object)
        => err' = Nil /\ zip' = zip]_vars

C9_Witness ==
  /\ Returned /\ call.mode = "filter" /\ Len(zip) >= 1
  /\ \E i, j \in DOMAIN handled :
       i < j /\ ~predicate(handled[i].object) /\ predicate(handled[j].object)

\* what the handler must receive for an object
Transformed(u) ==
  IF call.modify THEN modifyContentHandler(srcStore[u]) ELSE srcStore[u]

\* C10: the stream handed to the copy handler for every content object, at
\* the top level and below, is the modification handler applied to the source
\* content (the source content itself when there is no modification handler),
\* and the default handler stores exactly that.
C10_ContentTransform ==
  /\ \A h \in Range(handled) : h.data = Transformed(h.object.url)
  /\ call.mode = "copy" /\ failures = 0 /\ handled # <<>> =>
       dstStore[handled[Len(handled)].destination]
         = Transformed(handled[Len(handled)].object.url)

C10_Witness ==
  /\ call.modify /\ pc = "walk" /\ Len(stack) >= 2 /\ failures = 0
  /\ Len(handled) >= 2
  /\ Contains(RelativeTo(srcBase, handled[Len(handled)].object.url), <<"/">>)
  /\ dstStore[handled[Len(handled)].destination]
       = modifyContentHandler(srcStore[handled[Len(handled)].object.url])

\* the layers of an error that are the wrap of the top-level call
TopWraps(e) == {i \in DOMAIN e : e[i].msg = "failed to copy"}

\* C11: the value a top-level call returns is nil when the walk had no error,
\* and otherwise the walk error wrapped exactly once, by a layer naming the
\* source URL and the destination URL of the call, at whatever depth the
\* failure happened.
C11_WrappedOnce ==
  pc = "done" =>
    /\ failures = 0 => result = Nil
    /\ failures > 0 =>
         /\ result # Nil
         /\ result[1] = [msg |-> "failed to copy", src |-> call.sourceURL,
                         dst |-> call.destinationURL]
         /\ TopWraps(result) = {1}
         /\ Tail(result) = err
         /\ result[Len(result)] = BackendError[1]
         /\ Len(result) <= 3

C11_Witness ==
  /\ pc = "done" /\ result # Nil
  /\ Len(lists) = 3 /\ lists[3].objects = <<>>
  /\ TopWraps(result) = {1} /\ Len(result) = 2

\* ------------------------------------------------------------ iterator.go
\* The largest slice an iterator is made over
MaxSlice == 3

\* the elements of a slice; "nil" is the nil interface value
Elements == {"a", "r", "nil"}

\* the slices of one kind: a []string and any other typed slice hold no nil
Slices(kind) ==
  LET E == IF kind = "interface" THEN Elements ELSE Elements \ {"nil"}
  IN UNION {[1..n -> E] : n \in 0..MaxSlice}

\* the zero value of the variable behind a pointer: nil for a *interface{},
\* the empty value for a typed pointer
Zero(pointer) == IF pointer = "interface" THEN "nil" ELSE "zero"

\* NewSliceIterator(slice): the iterator chosen by the type of the slice
NewSliceIterator(kind, slice) ==
  [on |-> TRUE, kind |-> kind, sliceValue |-> slice, index |-> 0,
   item |-> "unset", hasNext |-> "none", nexts |-> 0, stored |-> <<>>,
   panic |-> FALSE]

InitIter ==
  /\ \E kind \in {"interface", "string", "other"} :
       \E slice \in Slices(kind) : iter = NewSliceIterator(kind, slice)
  /\ tags = Idle /\ path = Idle /\ tok = Idle
  /\ srcBase = SrcRoot /\ srcStore = <<>> /\ listSelf = FALSE /\ listOrder = "asc"
  /\ dstStore = <<>> /\ call = NoCall /\ pc = "idle" /\ stack = <<>>
  /\ err = Nil /\ result = Nil /\ lists = <<>> /\ downloads = <<>>
  /\ probes = <<>> /\ handled = <<>> /\ zip = <<>> /\ run = 0
  /\ snap = <<>> /\ dst0 = <<>> /\ failures = 0

\* the value Next leaves behind the pointer for an element
Store(kind, value, pointer) ==
  IF kind = "interface" /\ value = "nil" THEN Zero(pointer) ELSE value

HasNextValue_Inclusive(it) == it.index <= Len(it.sliceValue)

\* i.index < len(i.sliceValue), the same in the three iterators
HasNextValue(it) == it.index < Len(it.sliceValue)

\* HasNext()
HasNext ==
  /\ iter.on /\ ~iter.panic
  /\ iter' = [iter EXCEPT !.hasNext = IF HasNextValue(iter) THEN "true" ELSE "false"]
  /\ UNCHANGED <<copyVars, tags, path, tok>>

\* Next(itemPointer) with an element left
IterNext ==
  /\ iter.on /\ ~iter.panic
  /\ iter.index < Len(iter.sliceValue)
  /\ \E pointer \in {"interface", "typed"} :
       LET value == iter.sliceValue[iter.index + 1]
       IN iter' = [iter EXCEPT !.index = @ + 1,
                               !.item = Store(iter.kind, value, pointer),
                               !.nexts = @ + 1,
                               !.stored = Append(@, [value |-> Store(iter.kind, value, pointer),
                                                     pointer |-> pointer]),
                               !.hasNext = "none"]
  /\ UNCHANGED <<copyVars, tags, path, tok>>

\* Next(itemPointer) past the end: the index is out of range and Go panics
IterNextPanic ==
  /\ iter.on /\ ~iter.panic
  /\ ~(iter.index < Len(iter.sliceValue))
  /\ iter' = [iter EXCEPT !.panic = TRUE, !.hasNext = "none"]
  /\ UNCHANGED <<copyVars, tags, path, tok>>

NextIter == HasNext \/ IterNext \/ IterNextPanic

SpecIter == InitIter /\ [][NextIter]_vars

\* C12: for an iterator over a slice of length n, of any of the three kinds,
\* HasNext answers true exactly while fewer than n Next calls were made, the
\* k-th Next call stores the k-th element behind the pointer (a nil element of
\* a []interface{} arrives as the zero value of the pointed variable), and
\* HasNext does not move the iterator.
C12_SliceIterator ==
  /\ [](iter.hasNext # "none" => (iter.hasNext = "true" <=> iter.nexts < Len(iter.sliceValue)))
  /\ [](\A k \in DOMAIN iter.stored :
           /\ k <= Len(iter.sliceValue)
           /\ iter.sliceValue[k] # "nil" => iter.stored[k].value = iter.sliceValue[k]
           /\ iter.sliceValue[k] = "nil" => iter.stored[k].value = Zero(iter.stored[k].pointer))
  /\ [](iter.stored # <<>> => iter.item = iter.stored[Len(iter.stored)].value)
  /\ [][iter'.hasNext # "none" =>
          /\ iter'.index = iter.index /\ iter'.item = iter.item
          /\ iter'.nexts = iter.nexts]_vars

C12_Witness ==
  /\ iter.on /\ iter.kind = "string" /\ Len(iter.sliceValue) = 3
  /\ iter.nexts = 3 /\ iter.hasNext = "false"
  /\ iter.item = iter.sliceValue[3] /\ iter.sliceValue[3] # iter.sliceValue[2]

\* ------------------------------------------------- BuildTagMapping (tags)
\* The most fields a struct template has
MaxFields == 3

Uppers == <<"A", "B", "C", "D", "E", "F", "G", "H", "I", "J", "K", "L", "M",
            "N", "O", "P", "Q", "R", "S", "T", "U", "V", "W", "X", "Y", "Z">>
Lowers == <<"a", "b", "c", "d", "e", "f", "g", "h", "i", "j", "k", "l", "m",
            "n", "o", "p", "q", "r", "s", "t", "u", "v", "w", "x", "y", "z">>

\* strings.ToLower: every upper-case letter becomes its lower-case letter
ToLower(s) ==
  [i \in DOMAIN s |->
     IF \E u \in DOMAIN Uppers : Uppers[u] = s[i]
     THEN Lowers[CHOOSE u \in DOMAIN Uppers : Uppers[u] = s[i]]
     ELSE s[i]]

\* strings.EqualFold on letters: equal when case is ignored
EqualFold(s, t) == ToLower(s) = ToLower(t)

fieldNameKey == "fieldName"
anonymousKey == "anonymous"
fieldIndexKey == "fieldIndex"

\* make(map[string]...): the empty map, also the tag of an untagged field
EmptyMap == [k \in {} |-> <<>>]

\* the tag value "true"
TrueValue == <<"t", "r", "u", "e">>

\* AsString(i) of a field index
AsString(i) == <<<<"0", "1", "2", "3", "4", "5", "6", "7", "8", "9">>[i + 1]>>

\* a reflect.StructField: Name, Anonymous, PkgPath ("" when exported), the
\* struct tag, the kind of its type and, for a struct type, that struct's fields
StructField(name, anonymous, pkgPath, tag, kind, type) ==
  [Name |-> name, Anonymous |-> anonymous, PkgPath |-> pkgPath, Tag |-> tag,
   Kind |-> kind, Type |-> type]

Plain(name, tag) == StructField(name, FALSE, "", tag, "other", <<>>)

\* the fields struct templates are made of: those of the User struct of
\* TestBuildTagMapping, a field whose column is another field's name in another
\* case, an exclusion tag in upper case, a tag named fieldName, an unexported
\* field, an embedded struct and an embedded non-struct
FieldPool ==
  { Plain(<<"N", "a", "m", "e">>, [column |-> <<"n", "a", "m", "e">>]),
    Plain(<<"I", "d">>, [autogenrated |-> TrueValue]),
    Plain(<<"O", "t", "h", "e", "r">>, [transient |-> TrueValue]),
    Plain(<<"K", "e", "y">>, [column |-> <<"I", "D">>]),
    Plain(<<"T", "m", "p">>, [transient |-> <<"T", "R", "U", "E">>]),
    Plain(<<"A", "g", "e">>, [transient |-> <<"n", "o">>, fieldName |-> <<"y", "r">>]),
    StructField(<<"r", "a", "w">>, FALSE, "toolbox", [column |-> <<"r", "a", "w">>], "other", <<>>),
    StructField(<<"B", "a", "s", "e">>, TRUE, "", EmptyMap, "struct",
                <<Plain(<<"I", "d">>, [column |-> <<"i", "d">>]),
                  Plain(<<"U", "p">>, EmptyMap)>>),
    StructField(<<"C", "n", "t">>, TRUE, "", EmptyMap, "other", <<>>) }

\* the struct templates: up to MaxFields fields of different names
Templates ==
  {t \in UNION {[1..n -> FieldPool] : n \in 0..MaxFields} :
     \A i, j \in DOMAIN t : i # j => t[i].Name # t[j].Name}

\* field.Tag.Get(tag): the value, "" when the field does not carry the tag
TagGet(field, tag) ==
  IF tag \in DOMAIN field.Tag THEN field.Tag[tag] ELSE <<>>

\* m[k] = v on a Go map
Put(m, k, v) == [x \in DOMAIN m \cup {k} |-> IF x = k THEN v ELSE m[x]]

isTransient_Exact(field, resultExclusionTag) ==
  TagGet(field, resultExclusionTag) = TrueValue

\* strings.EqualFold(field.Tag.Get(resultExclusionTag), "true")
isTransient(field, resultExclusionTag) ==
  EqualFold(TagGet(field, resultExclusionTag), TrueValue)

\* the entry of one field: the requested tags it carries, then fieldName
FieldEntry(field, requested) ==
  LET carried == {t \in Range(requested) : Len(TagGet(field, t)) > 0}
  IN Put([t \in carried |-> TagGet(field, t)], fieldNameKey, field.Name)

RECURSIVE BuildTagMapping(_, _, _, _, _, _)
BuildTagMapping(struct, mappedKeyTag, resultExclusionTag, inheritKeyFromField, convertKeyToLowerCase, requested) ==
  LET RECURSIVE Fields(_, _, _)
      Fields(i, mapping, anonymousMappings) ==
        IF i > Len(struct)
        THEN [k \in DOMAIN mapping \cup DOMAIN anonymousMappings |->
                IF k \in DOMAIN mapping THEN mapping[k] ELSE anonymousMappings[k]]
        ELSE
          LET field == struct[i]
              tagKey == IF mappedKeyTag = fieldNameKey THEN field.Name
                        ELSE TagGet(field, mappedKeyTag)
              named == IF Len(tagKey) = 0 THEN field.Name ELSE tagKey
              key == IF convertKeyToLowerCase THEN ToLower(named) ELSE named
          IN IF field.Anonymous
             THEN IF field.Kind = "struct"
                  THEN LET anonymousMapping ==
                             BuildTagMapping(field.Type, mappedKeyTag, resultExclusionTag,
                                             inheritKeyFromField, convertKeyToLowerCase,
                                             requested)
                       IN Fields(i + 1, mapping,
                                 [k \in DOMAIN anonymousMappings \cup DOMAIN anonymousMapping |->
                                    IF k \in DOMAIN anonymousMapping
                                    THEN Put(Put(anonymousMapping[k], anonymousKey, TrueValue),
                                             fieldIndexKey, AsString(i - 1))
                                    ELSE anonymousMappings[k]])
                  ELSE Fields(i + 1, mapping, anonymousMappings)
             ELSE IF field.PkgPath # "" THEN Fields(i + 1, mapping, anonymousMappings)
             ELSE IF isTransient(field, resultExclusionTag)
                  THEN Fields(i + 1, mapping, anonymousMappings)
             ELSE IF Len(tagKey) = 0 /\ ~inheritKeyFromField
                  THEN Fields(i + 1, mapping, anonymousMappings)
             ELSE Fields(i + 1, Put(mapping, key, FieldEntry(field, requested)),
                         anonymousMappings)
  IN Fields(1, EmptyMap, EmptyMap)

\* the lists of requested tags
TagLists == {<<"column", "autogenrated">>, <<"column", "fieldName">>}

InitTags ==
  /\ \E struct \in Templates, mappedKeyTag \in {"column", fieldNameKey},
        inherit, lower \in BOOLEAN, requested \in TagLists :
       tags = [on |-> TRUE, struct |-> struct, mappedKeyTag |-> mappedKeyTag,
               resultExclusionTag |-> "transient", inheritKeyFromField |-> inherit,
               convertKeyToLowerCase |-> lower, tags |-> requested,
               called |-> FALSE, result |-> EmptyMap]
  /\ iter = Idle /\ path = Idle /\ tok = Idle
  /\ srcBase = SrcRoot /\ srcStore = <<>> /\ listSelf = FALSE /\ listOrder = "asc"
  /\ dstStore = <<>> /\ call = NoCall /\ pc = "idle" /\ stack = <<>>
  /\ err = Nil /\ result = Nil /\ lists = <<>> /\ downloads = <<>>
  /\ probes = <<>> /\ handled = <<>> /\ zip = <<>> /\ run = 0
  /\ snap = <<>> /\ dst0 = <<>> /\ failures = 0

\* BuildTagMapping(structTemplatePointer, mappedKeyTag, resultExclusionTag,
\*                 inheritKeyFromField, convertKeyToLowerCase, tags)
CallBuildTagMapping ==
  /\ tags.on /\ ~tags.called
  /\ tags' = [tags EXCEPT !.called = TRUE,
                          !.result = BuildTagMapping(tags.struct, tags.mappedKeyTag,
                                                     tags.resultExclusionTag,
                                                     tags.inheritKeyFromField,
                                                     tags.convertKeyToLowerCase, tags.tags)]
  /\ UNCHANGED <<copyVars, iter, path, tok>>

NextTags == CallBuildTagMapping

SpecTags == InitTags /\ [][NextTags]_vars

\* the call the claim is about has returned
TagsBuilt ==
  /\ tags.on /\ tags.called
  /\ tags.inheritKeyFromField /\ tags.convertKeyToLowerCase

\* the lower-cased mapped-key tag value or, when absent, the lower-cased name
TagKey(field) ==
  ToLower(IF Len(TagGet(field, tags.mappedKeyTag)) > 0
          THEN TagGet(field, tags.mappedKeyTag) ELSE field.Name)

\* C13: BuildTagMapping with inheritKeyFromField and convertKeyToLowerCase set
\* returns exactly one entry per exported, non-embedded field that is not
\* marked "true" under the exclusion tag, keyed by the lower-cased mapped-key
\* tag value or, when that tag is absent, the lower-cased field name; every
\* entry holds fieldName equal to the field's name and the value of each
\* requested tag that the field carries.
C13_OneEntryPerField ==
  TagsBuilt =>
    LET struct == tags.struct
        Fs == {i \in DOMAIN struct :
                 /\ ~struct[i].Anonymous /\ struct[i].PkgPath = ""
                 /\ TagGet(struct[i], tags.resultExclusionTag) # TrueValue}
    IN /\ Cardinality(DOMAIN tags.result) = Cardinality(Fs)
       /\ \A i \in Fs :
            /\ TagKey(struct[i]) \in DOMAIN tags.result
            /\ LET entry == tags.result[TagKey(struct[i])]
               IN /\ entry[fieldNameKey] = struct[i].Name
                  /\ \A t \in Range(tags.tags) :
                       Len(TagGet(struct[i], t)) > 0 =>
                         t \in DOMAIN entry /\ entry[t] = TagGet(struct[i], t)

\* the key the code gives a field: its name when the mapped-key tag is
\* "fieldName" itself
OwnKey(field) ==
  IF tags.mappedKeyTag = fieldNameKey THEN ToLower(field.Name) ELSE TagKey(field)

\* the fields of a struct that get an entry of their own
OwnFields(struct) ==
  {i \in DOMAIN struct :
     /\ ~struct[i].Anonymous /\ struct[i].PkgPath = ""
     /\ ToLower(TagGet(struct[i], tags.resultExclusionTag)) # TrueValue}

\* C13, amended: the call returns one entry per distinct key of the exported,
\* non-embedded fields not marked "true", in any letter case, under the
\* exclusion tag; the key of a field is the lower-cased mapped-key tag value
\* or, when that tag is absent or is "fieldName" itself, the lower-cased field
\* name; of several such fields with one key the last has the entry; the entry
\* holds fieldName equal to the field's name and the value of each requested
\* tag other than fieldName that the field carries; the fields of embedded
\* structs add, under keys no such field has, their own entries marked
\* anonymous.
C13_OneEntryPerKey ==
  TagsBuilt =>
    LET struct == tags.struct
        Own == OwnFields(struct)
        OwnKeys == {OwnKey(struct[i]) : i \in Own}
        Last(k) == CHOOSE i \in Own :
                     /\ OwnKey(struct[i]) = k
                     /\ \A j \in Own : OwnKey(struct[j]) = k => j <= i
        Embedded == {i \in DOMAIN struct :
                       struct[i].Anonymous /\ struct[i].Kind = "struct"}
        Inner == UNION {{<<e, j>> : j \in OwnFields(struct[e].Type)} : e \in Embedded}
        InnerKeys == {OwnKey(struct[p[1]].Type[p[2]]) : p \in Inner}
    IN /\ DOMAIN tags.result = OwnKeys \cup InnerKeys
       /\ \A k \in OwnKeys :
            LET field == struct[Last(k)]
                entry == tags.result[k]
            IN /\ entry[fieldNameKey] = field.Name
               /\ anonymousKey \notin DOMAIN entry
               /\ \A t \in Range(tags.tags) \ {fieldNameKey} :
                    IF Len(TagGet(field, t)) > 0
                    THEN t \in DOMAIN entry /\ entry[t] = TagGet(field, t)
                    ELSE t \notin DOMAIN entry
       /\ \A k \in InnerKeys \ OwnKeys :
            /\ tags.result[k][anonymousKey] = TrueValue
            /\ \E p \in Inner :
                 /\ OwnKey(struct[p[1]].Type[p[2]]) = k
                 /\ tags.result[k][fieldNameKey] = struct[p[1]].Type[p[2]].Name
                 /\ tags.result[k][fieldIndexKey] = AsString(p[1] - 1)

C13_Witness ==
  /\ TagsBuilt /\ tags.mappedKeyTag = "column"
  /\ Len(tags.struct) = 3
  /\ Cardinality(OwnFields(tags.struct)) = 2
  /\ Cardinality(DOMAIN tags.result) = 2
  /\ <<"i", "d">> \in DOMAIN tags.result
  /\ tags.result[<<"i", "d">>][fieldNameKey] = <<"K", "e", "y">>
  /\ tags.result[<<"i", "d">>]["column"] = <<"I", "D">>
  /\ <<"u", "p">> \in DOMAIN tags.result
  /\ tags.result[<<"u", "p">>][anonymousKey] = TrueValue

\* C14: within one listed level the copy handler is invoked for every content
\* object of that level before the engine recurses into any subfolder of that
\* level, whatever order List returned the objects in: an activation that is
\* inside a recursive call has no content object left at or after its position.
C14_ContentBeforeFolders ==
  \A k \in 1..(Len(stack) - 1) :
    \A j \in DOMAIN stack[k].objects :
      IsContent(stack[k].objects[j]) => j < stack[k].i

\* C14, amended: the objects of one listed level are processed in the order
\* List returned them: an activation at position i has invoked the handler
\* for exactly the content objects listed before i, and is inside a recursive
\* call only for the folder at position i; the content objects of a level
\* precede the recursion only when the listing returns them before the folder.
C14_ListingOrder ==
  (pc = "walk" /\ err = Nil) =>
    \A k \in DOMAIN stack :
      LET f == stack[k]
          Before == {j \in DOMAIN f.objects : j < f.i}
      IN f.listed =>
           /\ f.open = Cardinality({j \in Before : IsContent(f.objects[j])})
           /\ \A j \in Before :
                IsContent(f.objects[j]) =>
                  \E h \in Range(handled) : h.object = f.objects[j]
           /\ k < Len(stack) =>
                /\ f.i \in DOMAIN f.objects
                /\ IsFolder(f.objects[f.i])
                /\ ~Skipped(f, f.objects[f.i])

C14_Witness ==
  /\ pc = "walk" /\ err = Nil /\ srcBase = SrcRoot
  /\ Len(stack) = 2 /\ stack[2].listed /\ stack[2].i = 2
  /\ stack[1].i = 1 /\ Len(stack[1].objects) = 3
  /\ IsContent(stack[1].objects[2]) /\ IsContent(stack[1].objects[3])
  /\ Len(handled) = 1
  /\ handled[1].object.url = URLPathJoin(SrcRoot, PathC)

\* C15: when the copy handler invoked by the walk returns an error, the error
\* propagated from copyStorageContent is that error wrapped with the source
\* object URL and the destination object URL, for the archive handlers as well
\* as for the default upload handler; the activations hand it up unchanged.
C15_HandlerErrorWrapped ==
  /\ [][(err = Nil /\ err' # Nil /\ handled' # handled) =>
          LET h == handled'[Len(handled')]
          IN /\ Len(err') = 2
             /\ err'[1].src = h.object.url
             /\ err'[1].dst = h.destination
             /\ Tail(err') = BackendError]_vars
  /\ [][(pc = "walk" /\ err # Nil) => err' = err]_vars

\* the depth of the source tree: the root and the folders below it on the
\* longest path to a content object
TreeDepth ==
  LET Folders(u) == Cardinality({i \in DOMAIN u : i > Len(srcBase) + 1 /\ u[i] = "/"})
      Deepest == CHOOSE u \in DOMAIN srcStore :
                   \A v \in DOMAIN srcStore : Folders(v) <= Folders(u)
  IN IF DOMAIN srcStore = {} THEN 1 ELSE 1 + Folders(Deepest)

\* C16: on a finite source tree whose listings return the immediate children
\* and possibly the listed folder itself, the walk never lists the same folder
\* URL twice and never nests deeper than the tree, so Copy terminates.
C16_NoRelisting ==
  /\ \A i, j \in DOMAIN lists : i # j => lists[i].url # lists[j].url
  /\ Len(stack) <= TreeDepth

\* the relative path of an object by its own URL alone
OwnRelativePath(object) ==
  LET objectURLPath == urlPath(object.url)
      cut == SliceFrom(objectURLPath, Len(sourceURLPath))
  IN IF Len(objectURLPath) > Len(sourceURLPath)
     THEN (IF HasPrefix(cut, <<"/">>) THEN SliceFrom(cut, 1) ELSE cut)
     ELSE <<>>

\* C17: for every object processed in a listing, whatever preceded it in the
\* listing, the relative path used for its destination URL, and the subPath of
\* its recursive call, is the object's own URL path with the source root's
\* path removed and a leading separator stripped, and is empty when the
\* object's path is not longer than the root's path.
C17_OwnRelativePath ==
  /\ [][Len(handled') = Len(handled) + 1 =>
          stack'[Len(stack')].objectRelativePath =
            OwnRelativePath(handled'[Len(handled')].object)]_vars
  /\ [](\A k \in 1..(Len(stack) - 1) :
          stack[k + 1].subPath = OwnRelativePath(stack[k].objects[stack[k].i]))

\* C18: the stream Download opened for a content object is released no later
\* than immediately after the copy handler for that object returns: an
\* activation holds at most the stream of the object it is processing, and
\* none while it is inside the recursive call for a folder listed later.
C18_StreamReleased ==
  \A k \in DOMAIN stack :
    /\ stack[k].open <= 1
    /\ k < Len(stack) => stack[k].open = 0

\* ---------------------------------------------------------- urlPath (path)
\* The most path segments of a URL handed to urlPath
MaxSegments == 2

\* the path of a sequence of segments: "/s/d"
SegmentsPath(segments) ==
  LET RECURSIVE Joined(_)
      Joined(k) == IF k = 0 THEN <<>> ELSE Joined(k - 1) \o <<"/">> \o segments[k]
  IN Joined(Len(segments))

\* the URLs: scheme://host, scheme://host/, scheme://host/path with a host
\* that may be empty, and the scheme-less paths, rooted or relative
URLParts ==
  {p \in [form : {"url", "rooted", "relative"}, host : {<<>>, <<"h">>, <<"h", "h">>},
          segments : UNION {[1..n -> {<<"s">>, <<"d">>}] : n \in 0..MaxSegments},
          slash : BOOLEAN] :
     /\ p.form # "url" => p.host = <<>>
     /\ p.form = "relative" => p.segments # <<>>}

\* the URL string of the parts
URLOf(p) ==
  LET trailing == IF p.slash THEN <<"/">> ELSE <<>>
      whole == SegmentsPath(p.segments) \o trailing
  IN CASE p.form = "url" -> <<"m", ":", "/", "/">> \o p.host \o whole
       [] p.form = "rooted" -> whole
       [] OTHER -> Tail(whole)

InitPath ==
  /\ \E p \in URLParts :
       path = [on |-> TRUE, parts |-> p, URL |-> URLOf(p), called |-> FALSE,
               result |-> <<>>]
  /\ iter = Idle /\ tags = Idle /\ tok = Idle
  /\ srcBase = SrcRoot /\ srcStore = <<>> /\ listSelf = FALSE /\ listOrder = "asc"
  /\ dstStore = <<>> /\ call = NoCall /\ pc = "idle" /\ stack = <<>>
  /\ err = Nil /\ result = Nil /\ lists = <<>> /\ downloads = <<>>
  /\ probes = <<>> /\ handled = <<>> /\ zip = <<>> /\ run = 0
  /\ snap = <<>> /\ dst0 = <<>> /\ failures = 0

\* urlPath(URL)
CallUrlPath ==
  /\ path.on /\ ~path.called
  /\ path' = [path EXCEPT !.called = TRUE, !.result = urlPath(path.URL)]
  /\ UNCHANGED <<copyVars, iter, tags, tok>>

NextPath == CallUrlPath

SpecPath == InitPath /\ [][NextPath]_vars

\* the path component of the parts, without a trailing slash
PathComponent(p) ==
  IF p.form = "relative" THEN Tail(SegmentsPath(p.segments))
  ELSE SegmentsPath(p.segments)

\* C19: for every URL scheme://host, scheme://host/ or scheme://host/path
\* (host possibly empty) and every scheme-less path, urlPath returns the path
\* component with scheme and host removed and without a trailing slash; two
\* URLs that differ only by a trailing slash have the same result.
C19_PathComponent ==
  (path.on /\ path.called) =>
    /\ path.result = PathComponent(path.parts)
    /\ ~path.parts.slash => urlPath(path.URL \o <<"/">>) = path.result

\* ------------------------------------------------------- Tokenizer (tok)
\* The longest input a tokenizer is made over
MaxInput == 4

\* input[from:to] of Go
Slice(input, from, to) == SubSeq(input, from + 1, to)

\* input[offset:offset+1]
CharAt(input, offset) == input[offset + 1]

Letters == Range(Lowers) \cup Range(Uppers)

Digits == {"0", "1", "2", "3", "4", "5", "6", "7", "8", "9"}

isLetter(aChar) == aChar \in Letters

isDigit(aChar) == aChar \in Digits

\* the count of characters from offset on that are all in Good: the loops
\* `for ; i < len(input)-offset; i++ { if !good(aChar) { break } }`
Run(input, offset, Good) ==
  LET Stops == {i \in offset..(Len(input) - 1) : CharAt(input, i) \notin Good}
  IN IF Stops = {} THEN Len(input) - offset
     ELSE (CHOOSE i \in Stops : \A j \in Stops : i <= j) - offset

\* SequenceMatcher.hasTerminator(candidate)
hasTerminator(m, candidate) ==
  \E terminator \in m.Terminators :
    /\ Len(terminator) <= Len(candidate)
    /\ \/ ~m.CaseSensitive
          /\ ToLower(terminator) = ToLower(SliceTo(candidate, Len(terminator)))
       \/ terminator = SliceTo(candidate, Len(terminator))

\* the loop of BodyMatcher.Match from position i at nesting depth `depth`
RECURSIVE BodyLoop(_, _, _, _, _)
BodyLoop(m, input, offset, i, depth) ==
  LET beginLen == Len(m.Begin)
      endLen == Len(m.End)
      at == offset + i
      opened == IF /\ m.Begin # m.End
                   /\ at + beginLen <= Len(input)
                   /\ Slice(input, at, at + beginLen) = m.Begin
                THEN depth + 1 ELSE depth
      closed == IF Slice(input, at, at + endLen) = m.End THEN opened - 1 ELSE opened
  IN IF ~(i < Len(input) - offset) THEN i
     ELSE IF ~(at + endLen <= Len(input)) THEN 0
     ELSE IF closed = 0 THEN i + endLen
     ELSE BodyLoop(m, input, offset, i + 1, closed)

\* Matcher.Match(input, offset) of the built-in matchers
Match(m, input, offset) ==
  CASE m.kind = "CharactersMatcher" -> Run(input, offset, Range(m.Chars))
    [] m.kind = "EOFMatcher" -> IF offset + 1 = Len(input) THEN 1 ELSE 0
    [] m.kind = "IntMatcher" ->
         IF ~isDigit(CharAt(input, offset)) THEN 0
         ELSE 1 + Run(input, offset + 1, Digits)
    [] m.kind = "LiteralMatcher" ->
         IF ~isLetter(CharAt(input, offset)) THEN 0
         ELSE 1 + Run(input, offset + 1, Letters \cup Digits \cup {"_", "."})
    [] m.kind = "IdMatcher" ->
         IF ~isLetter(CharAt(input, offset)) /\ ~isDigit(CharAt(input, offset)) THEN 0
         ELSE 1 + Run(input, offset + 1, Letters \cup Digits \cup {"_", "."})
    [] m.kind = "SequenceMatcher" ->
         LET Ends == {i \in 0..(Len(input) - offset - 1) :
                        hasTerminator(m, SliceFrom(input, offset + i))}
         IN IF Ends = {} THEN Len(input) - offset
            ELSE CHOOSE i \in Ends : \A j \in Ends : i <= j
    [] m.kind = "remainingSequenceMatcher" -> Len(input) - offset
    [] m.kind = "customIdMatcher" ->
         IF CharAt(input, offset) \notin Letters \cup Digits \cup m.Allowed THEN 0
         ELSE 1 + Run(input, offset + 1, Letters \cup Digits \cup m.Allowed)
    [] m.kind = "BodyMatcher" ->
         IF offset + Len(m.Begin) >= Len(input) THEN 0
         ELSE IF Slice(input, offset, offset + Len(m.Begin)) # m.Begin THEN 0
         ELSE BodyLoop(m, input, offset, 1, 1)
    [] m.kind = "KeywordMatcher" ->
         IF ~(offset + Len(m.Keyword) - 1 < Len(input)) THEN 0
         ELSE IF m.CaseSensitive
              THEN (IF Slice(input, offset, offset + Len(m.Keyword)) = m.Keyword
                    THEN Len(m.Keyword) ELSE 0)
              ELSE (IF ToLower(Slice(input, offset, offset + Len(m.Keyword))) = ToLower(m.Keyword)
                    THEN Len(m.Keyword) ELSE 0)
    [] OTHER ->
         LET Hits == {k \in DOMAIN m.Keywords :
                        /\ ~(Len(input) - offset < Len(m.Keywords[k]))
                        /\ IF m.CaseSensitive
                           THEN Slice(input, offset, offset + Len(m.Keywords[k])) = m.Keywords[k]
                           ELSE ToLower(Slice(input, offset, offset + Len(m.Keywords[k])))
                                  = ToLower(m.Keywords[k])}
         IN IF Hits = {} THEN 0
            ELSE Len(m.Keywords[CHOOSE k \in Hits : \A j \in Hits : k <= j])

\* the matchers a tokenizer is given, by token: every built-in matcher, the
\* EOFMatcher under the end-of-file token and under a token of its own
BuiltinMatchers ==
  <<[kind |-> "CharactersMatcher", Chars |-> <<"1", "(">>],
    [kind |-> "IntMatcher"],
    [kind |-> "LiteralMatcher"],
    [kind |-> "IdMatcher"],
    [kind |-> "SequenceMatcher", Terminators |-> {<<")">>, <<"a", "a">>}, CaseSensitive |-> FALSE],
    [kind |-> "remainingSequenceMatcher"],
    [kind |-> "customIdMatcher", Allowed |-> {"("}],
    [kind |-> "BodyMatcher", Begin |-> <<"(">>, End |-> <<")">>],
    [kind |-> "KeywordMatcher", Keyword |-> <<"a", "1">>, CaseSensitive |-> FALSE],
    [kind |-> "KeywordsMatcher", Keywords |-> <<<<"A", "a">>, <<"(">>>>, CaseSensitive |-> TRUE],
    [kind |-> "EOFMatcher"]>>

\* map[int]Matcher: the tokens 1.. and the matcher the caller registers for
\* the end-of-file token
matchers(endOfFileToken, eofMatcher) ==
  [token \in DOMAIN BuiltinMatchers \cup {endOfFileToken} |->
     IF token = endOfFileToken THEN eofMatcher ELSE BuiltinMatchers[token]]

\* the characters of the inputs
InputChars == {"a", "A", "1", "(", ")"}

Inputs == UNION {[1..n -> InputChars] : n \in 0..MaxInput}

\* NewTokenizer(input, invalidToken, endOfFileToken, matcher); `last` keeps
\* the latest call: its candidate, the Index before it and the token returned
NewTokenizer(input, invalidToken, endOfFileToken, matcher) ==
  [on |-> TRUE, matchers |-> matcher, Input |-> input, Index |-> 0,
   InvalidToken |-> invalidToken, EndOfFileToken |-> endOfFileToken,
   panic |-> FALSE,
   last |-> [op |-> "none", candidate |-> invalidToken, before |-> 0,
             token |-> [Token |-> invalidToken, Matched |-> <<>>]]]

InitTok ==
  /\ \E input \in Inputs,
        eofMatcher \in {[kind |-> "EOFMatcher"], [kind |-> "remainingSequenceMatcher"]} :
       tok = NewTokenizer(input, -1, 0, matchers(0, eofMatcher))
  /\ iter = Idle /\ tags = Idle /\ path = Idle
  /\ srcBase = SrcRoot /\ srcStore = <<>> /\ listSelf = FALSE /\ listOrder = "asc"
  /\ dstStore = <<>> /\ call = NoCall /\ pc = "idle" /\ stack = <<>>
  /\ err = Nil /\ result = Nil /\ lists = <<>> /\ downloads = <<>>
  /\ probes = <<>> /\ handled = <<>> /\ zip = <<>> /\ run = 0
  /\ snap = <<>> /\ dst0 = <<>> /\ failures = 0

Token(token, matched) == [Token |-> token, Matched |-> matched]

TokenizerNext_NoAdvance(t, candidate) ==
  LET offset == t.Index
      matchedSize == Match(t.matchers[candidate], t.Input, offset)
  IN IF ~(offset < Len(t.Input))
     THEN [t |-> t, token |-> Token(t.EndOfFileToken, <<>>), panic |-> FALSE]
     ELSE IF candidate = t.EndOfFileToken
     THEN [t |-> t, token |-> Token(t.InvalidToken, <<>>), panic |-> FALSE]
     ELSE IF candidate \notin DOMAIN t.matchers
     THEN [t |-> t, token |-> Token(t.InvalidToken, <<>>), panic |-> TRUE]
     ELSE IF matchedSize > 0
     THEN [t |-> t,
           token |-> Token(candidate, Slice(t.Input, offset, offset + matchedSize)),
           panic |-> FALSE]
     ELSE [t |-> t, token |-> Token(t.InvalidToken, <<>>), panic |-> FALSE]

\* Tokenizer.Next(candidate): the tokenizer after the call, the token
\* returned and whether the call panicked on an unknown candidate
TokenizerNext(t, candidate) ==
  LET offset == t.Index
      matchedSize == Match(t.matchers[candidate], t.Input, offset)
  IN IF ~(offset < Len(t.Input))
     THEN [t |-> t, token |-> Token(t.EndOfFileToken, <<>>), panic |-> FALSE]
     ELSE IF candidate = t.EndOfFileToken
     THEN [t |-> t, token |-> Token(t.InvalidToken, <<>>), panic |-> FALSE]
     ELSE IF candidate \notin DOMAIN t.matchers
     THEN [t |-> t, token |-> Token(t.InvalidToken, <<>>), panic |-> TRUE]
     ELSE IF matchedSize > 0
     THEN [t |-> [t EXCEPT !.Index = t.Index + matchedSize],
           token |-> Token(candidate, Slice(t.Input, offset, offset + matchedSize)),
           panic |-> FALSE]
     ELSE [t |-> t, token |-> Token(t.InvalidToken, <<>>), panic |-> FALSE]

\* the candidates of a call: the registered tokens and one that is not
Candidates == DOMAIN BuiltinMatchers \cup {0, Len(BuiltinMatchers) + 1}

\* a caller calls tokenizer.Next(candidate)
CallNext ==
  /\ tok.on /\ ~tok.panic
  /\ \E candidate \in Candidates :
       LET r == TokenizerNext(tok, candidate)
       IN tok' = [r.t EXCEPT !.panic = r.panic,
                             !.last = [op |-> "Next", candidate |-> candidate,
                                       before |-> tok.Index, token |-> r.token]]
  /\ UNCHANGED <<copyVars, iter, tags, path>>

NextTok == CallNext

SpecTok == InitTok /\ [][NextTok]_vars

\* the latest call was Next and returned
NextReturned == tok.on /\ tok.last.op = "Next" /\ ~tok.panic

\* the count the registered matcher of the latest candidate matches at the
\* Index the call found, 0 when none is registered or no character is left
MatchedAtIndex ==
  IF /\ tok.last.candidate \in DOMAIN tok.matchers
     /\ tok.last.before < Len(tok.Input)
  THEN Match(tok.matchers[tok.last.candidate], tok.Input, tok.last.before)
  ELSE 0

\* C20: Next(candidate) with a registered matcher that matches n > 0
\* characters at Index returns Token{candidate, Input[Index:Index+n]} and
\* advances Index by exactly n; when the invalid or the end-of-file token is
\* returned Index is unchanged; with the built-in matchers Index never
\* decreases and never exceeds len(Input).
C20_NextAdvances ==
  NextReturned =>
    /\ MatchedAtIndex > 0 =>
         /\ tok.last.token = Token(tok.last.candidate,
                                   Slice(tok.Input, tok.last.before,
                                         tok.last.before + MatchedAtIndex))
         /\ tok.Index = tok.last.before + MatchedAtIndex
    /\ tok.last.token.Token \in {tok.InvalidToken, tok.EndOfFileToken} =>
         tok.Index = tok.last.before
    /\ tok.last.before <= tok.Index
    /\ tok.Index <= Len(tok.Input)

\* C20, amended: the first part holds for a candidate other than the
\* end-of-file token; Next(EndOfFileToken) before the end of Input returns the
\* invalid token and leaves Index alone, whatever a matcher registered for
\* that token would match.
C20_NextAdvancesUnlessEOF ==
  NextReturned =>
    /\ (MatchedAtIndex > 0 /\ tok.last.candidate # tok.EndOfFileToken) =>
         /\ tok.last.token = Token(tok.last.candidate,
                                   Slice(tok.Input, tok.last.before,
                                         tok.last.before + MatchedAtIndex))
         /\ tok.Index = tok.last.before + MatchedAtIndex
    /\ (tok.last.candidate = tok.EndOfFileToken /\ tok.last.before < Len(tok.Input)) =>
         /\ tok.last.token = Token(tok.InvalidToken, <<>>)
         /\ tok.Index = tok.last.before
    /\ tok.last.token.Token \in {tok.InvalidToken, tok.EndOfFileToken} =>
         tok.Index = tok.last.before
    /\ tok.last.before <= tok.Index
    /\ tok.Index <= Len(tok.Input)

C20_Witness ==
  /\ NextReturned
  /\ tok.Input = <<"1", "(", "a", ")">>
  /\ tok.last.before = 1 /\ tok.Index = 4
  /\ tok.matchers[tok.last.candidate].kind = "BodyMatcher"
  /\ tok.last.token.Matched = <<"(", "a", ")">>

\* ------------------------------------------------- Tokenizer.Nexts (tok)
\* The longest input of the tokenizers Nexts and ExpectToken are called on
MaxText == 3

Texts == UNION {[1..n -> InputChars] : n \in 0..MaxText}

TokenizerNexts_FirstOnly(t, candidates) ==
  IF candidates = <<>>
  THEN [t |-> t, token |-> Token(t.InvalidToken, <<>>), panic |-> FALSE]
  ELSE TokenizerNext(t, Head(candidates))

\* Tokenizer.Nexts(candidates...): the first result that is not the invalid
\* token; a panic of Next ends the call
RECURSIVE TokenizerNexts(_, _)
TokenizerNexts(t, candidates) ==
  IF candidates = <<>>
  THEN [t |-> t, token |-> Token(t.InvalidToken, <<>>), panic |-> FALSE]
  ELSE LET r == TokenizerNext(t, Head(candidates))
       IN IF r.panic \/ r.token.Token # t.InvalidToken THEN r
          ELSE TokenizerNexts(r.t, Tail(candidates))

\* the candidate lists of a call, by token (the position of the matcher in
\* BuiltinMatchers, 0 the end-of-file token, 12 a token without a matcher)
CandidateLists ==
  { <<>>, <<2>>, <<2, 3>>, <<3, 2>>, <<4, 7>>, <<10, 9>>, <<8, 1>>,
    <<0>>, <<0, 6>>, <<0, 11>>, <<12>>, <<3, 12>> }

InitNexts ==
  /\ \E input \in Texts,
        eofMatcher \in {[kind |-> "EOFMatcher"], [kind |-> "remainingSequenceMatcher"]} :
       tok = NewTokenizer(input, -1, 0, matchers(0, eofMatcher))
  /\ iter = Idle /\ tags = Idle /\ path = Idle
  /\ srcBase = SrcRoot /\ srcStore = <<>> /\ listSelf = FALSE /\ listOrder = "asc"
  /\ dstStore = <<>> /\ call = NoCall /\ pc = "idle" /\ stack = <<>>
  /\ err = Nil /\ result = Nil /\ lists = <<>> /\ downloads = <<>>
  /\ probes = <<>> /\ handled = <<>> /\ zip = <<>> /\ run = 0
  /\ snap = <<>> /\ dst0 = <<>> /\ failures = 0

\* a caller calls tokenizer.Nexts(candidates...)
CallNexts ==
  /\ tok.on /\ ~tok.panic
  /\ \E candidates \in CandidateLists :
       LET r == TokenizerNexts(tok, candidates)
       IN tok' = [r.t EXCEPT !.panic = r.panic,
                             !.last = [op |-> "Nexts", candidates |-> candidates,
                                       before |-> tok.Index, token |-> r.token]]
  /\ UNCHANGED <<copyVars, iter, tags, path>>

NextNexts == CallNexts

SpecNexts == InitNexts /\ [][NextNexts]_vars

\* the latest call was Nexts and returned
NextsReturned == tok.on /\ tok.last.op = "Nexts" /\ ~tok.panic

\* the count the registered matcher of a token matches at an offset, 0 when
\* none is registered or no character is left
MatchedAt(token, offset) ==
  IF token \in DOMAIN tok.matchers /\ offset < Len(tok.Input)
  THEN Match(tok.matchers[token], tok.Input, offset)
  ELSE 0

\* the positions of the candidates of the latest Nexts call whose matcher
\* matches at the Index the call found
Matching(Tokens) ==
  {k \in DOMAIN tok.last.candidates :
     /\ tok.last.candidates[k] \in Tokens
     /\ MatchedAt(tok.last.candidates[k], tok.last.before) > 0}

\* what the latest Nexts call must have done when the first match is looked
\* for among the candidates in Tokens
NextsTakesFirst(Tokens) ==
  LET M == Matching(Tokens)
      first == CHOOSE k \in M : \A j \in M : k <= j
      n == MatchedAt(tok.last.candidates[first], tok.last.before)
  IN IF M # {}
     THEN /\ tok.last.token = Token(tok.last.candidates[first],
                                    Slice(tok.Input, tok.last.before, tok.last.before + n))
          /\ tok.Index = tok.last.before + n
     ELSE /\ tok.last.token = Token(tok.InvalidToken, <<>>)
          /\ tok.Index = tok.last.before

\* C21: Nexts(candidates...) tries the candidates in order and returns the
\* token of the first candidate whose matcher matches at Index, consuming
\* input for that candidate only; it returns the invalid token with Index
\* unchanged when no candidate matches, and the end-of-file token whenever
\* Index has reached the end of Input.
C21_NextsFirstMatch ==
  NextsReturned =>
    IF tok.last.before < Len(tok.Input)
    THEN NextsTakesFirst(Int)
    ELSE /\ tok.last.token = Token(tok.EndOfFileToken, <<>>)
         /\ tok.Index = tok.last.before

\* C21, amended: the first match is looked for among the candidates other
\* than the end-of-file token, a candidate that is the end-of-file token
\* counting as not matching before the end of Input; at the end of Input the
\* end-of-file token is returned when at least one candidate is given, and
\* the invalid token when none is.
C21_NextsFirstMatchUnlessEOF ==
  NextsReturned =>
    IF tok.last.before < Len(tok.Input)
    THEN NextsTakesFirst(Int \ {tok.EndOfFileToken})
    ELSE /\ tok.last.token =
              Token(IF tok.last.candidates = <<>> THEN tok.InvalidToken
                    ELSE tok.EndOfFileToken, <<>>)
         /\ tok.Index = tok.last.before

C21_Witness ==
  /\ NextsReturned
  /\ tok.Input = <<"a", "1", "(">>
  /\ tok.last.candidates = <<2, 3>> /\ tok.last.before = 0
  /\ tok.last.token = Token(3, <<"a", "1">>)
  /\ tok.Index = 2

\* ------------------------------------------------ EOFMatcher.Match (tok)
InitMatch ==
  /\ \E input \in Texts : \E offset \in 0..Len(input) :
       tok = [on |-> TRUE, matcher |-> [kind |-> "EOFMatcher"], input |-> input,
              offset |-> offset, called |-> FALSE, matched |-> 0]
  /\ iter = Idle /\ tags = Idle /\ path = Idle
  /\ srcBase = SrcRoot /\ srcStore = <<>> /\ listSelf = FALSE /\ listOrder = "asc"
  /\ dstStore = <<>> /\ call = NoCall /\ pc = "idle" /\ stack = <<>>
  /\ err = Nil /\ result = Nil /\ lists = <<>> /\ downloads = <<>>
  /\ probes = <<>> /\ handled = <<>> /\ zip = <<>> /\ run = 0
  /\ snap = <<>> /\ dst0 = <<>> /\ failures = 0

\* EOFMatcher{}.Match(input, offset)
CallMatch ==
  /\ tok.on /\ ~tok.called
  /\ tok' = [tok EXCEPT !.called = TRUE,
                        !.matched = Match(tok.matcher, tok.input, tok.offset)]
  /\ UNCHANGED <<copyVars, iter, tags, path>>

NextMatch == CallMatch

SpecMatch == InitMatch /\ [][NextMatch]_vars

\* C22: EOFMatcher.Match(input, offset) returns 1 if the end of input has
\* been reached at offset, no character remaining, and 0 otherwise.
C22_EOFMatch ==
  (tok.on /\ tok.called) =>
    tok.matched = (IF tok.offset >= Len(tok.input) THEN 1 ELSE 0)

\* ---------------------------------------------------- ExpectToken (tok)
\* HasSliceAnyElements(candidates, token.Token)
HasSliceAnyElements(slice, element) == element \in Range(slice)

\* ExpectToken(tokenizer, errorMessage, candidates...): the tokenizer after
\* the call, the token Nexts found, whether an IllegalTokenError (and no
\* token) is returned, and the Position of that error (r ranges over the one
\* result of Nexts, which is so evaluated once)
ExpectToken(t, candidates) ==
  CHOOSE e \in {[t |-> r.t, token |-> r.token, panic |-> r.panic,
                 err |-> ~r.panic /\ ~HasSliceAnyElements(candidates, r.token.Token),
                 position |-> r.t.Index] :
                  r \in {TokenizerNexts(t, candidates)}} : TRUE

ExpectTokenOptionallyFollowedBy_Restores(t, first, second) ==
  CHOOSE r \in {IF r2.err THEN [r2 EXCEPT !.t = t, !.position = t.Index] ELSE r2 :
                  r2 \in {IF r1.panic THEN r1 ELSE ExpectToken(r1.t, second) :
                            r1 \in {ExpectToken(t, <<first>>)}}} : TRUE

\* ExpectTokenOptionallyFollowedBy(tokenizer, first, errorMessage, second...):
\* the result of the first ExpectToken is dropped
ExpectTokenOptionallyFollowedBy(t, first, second) ==
  CHOOSE r \in {IF r1.panic THEN r1 ELSE ExpectToken(r1.t, second) :
                  r1 \in {ExpectToken(t, <<first>>)}} : TRUE

\* the candidate lists and the first tokens of the calls
ExpectLists == {<<>>, <<2>>, <<3, 2>>, <<0>>, <<8, 1>>, <<12>>}

FirstTokens == {1, 3}

\* a caller calls ExpectToken(tokenizer, errorMessage, candidates...)
CallExpectToken ==
  /\ tok.on /\ ~tok.panic
  /\ \E candidates \in ExpectLists :
       \E r \in {ExpectToken(tok, candidates)} :
          tok' = [r.t EXCEPT !.panic = r.panic,
                             !.last = [op |-> "ExpectToken", first |-> tok.InvalidToken,
                                       candidates |-> candidates, before |-> tok.Index,
                                       token |-> r.token, err |-> r.err,
                                       position |-> r.position]]
  /\ UNCHANGED <<copyVars, iter, tags, path>>

\* a caller calls ExpectTokenOptionallyFollowedBy(tokenizer, first,
\* errorMessage, second...)
CallExpectTokenOptionallyFollowedBy ==
  /\ tok.on /\ ~tok.panic
  /\ \E first \in FirstTokens, second \in ExpectLists :
       \E r \in {ExpectTokenOptionallyFollowedBy(tok, first, second)} :
          tok' = [r.t EXCEPT !.panic = r.panic,
                             !.last = [op |-> "ExpectTokenOptionallyFollowedBy",
                                       first |-> first, candidates |-> second,
                                       before |-> tok.Index, token |-> r.token,
                                       err |-> r.err, position |-> r.position]]
  /\ UNCHANGED <<copyVars, iter, tags, path>>

NextExpect == CallExpectToken \/ CallExpectTokenOptionallyFollowedBy

SpecExpect == InitNexts /\ [][NextExpect]_vars

\* the latest call was one of the two Expect functions and returned
ExpectReturned ==
  /\ tok.on /\ ~tok.panic
  /\ tok.last.op \in {"ExpectToken", "ExpectTokenOptionallyFollowedBy"}

\* C23: whenever ExpectToken or ExpectTokenOptionallyFollowedBy returns an
\* error, Index equals its value before the call; when they return a token,
\* Index has advanced past exactly the matched text.
C23_ExpectConsumes ==
  ExpectReturned =>
    IF tok.last.err THEN tok.Index = tok.last.before
    ELSE tok.Index = tok.last.before + Len(tok.last.token.Matched)

\* the length of the text the first token of the latest
\* ExpectTokenOptionallyFollowedBy call matched, 0 for ExpectToken
FirstMatched ==
  IF tok.last.op = "ExpectTokenOptionallyFollowedBy"
     /\ tok.last.first # tok.EndOfFileToken
  THEN MatchedAt(tok.last.first, tok.last.before)
  ELSE 0

\* C23, amended: the claim holds of ExpectToken; ExpectTokenOptionallyFollowedBy
\* keeps the text its first token matched consumed: on an error Index is past
\* that text, and with a token it is past that text and the token's text.
C23_ExpectConsumesFirst ==
  ExpectReturned =>
    /\ tok.last.err =>
         /\ tok.Index = tok.last.before + FirstMatched
         /\ tok.last.position = tok.Index
    /\ ~tok.last.err =>
         tok.Index = tok.last.before + FirstMatched + Len(tok.last.token.Matched)
    /\ tok.last.op = "ExpectToken" => FirstMatched = 0

C23_Witness ==
  /\ ExpectReturned /\ tok.last.op = "ExpectTokenOptionallyFollowedBy"
  /\ tok.Input = <<"1", "a">>
  /\ tok.last.first = 1 /\ tok.last.candidates = <<2>>
  /\ tok.last.before = 0 /\ tok.last.err /\ tok.Index = 1

====
